---- MODULE Spec2Model ----
(***************************************************************************)
(* A model of the S3-event document summarizer:                            *)
(*   - src/src/summarizer/app.py     the AgentCore runtime entrypoint      *)
(*   - src/lambda/proxy_handler.py   the proxy Lambda handler              *)
(*   - src/setup/create_memory.py    the provisioning script's poll loop    *)
(*                                                                         *)
(* Strings are sequences of symbols.  A symbol is one separator character  *)
(* ("/", ".", "+", " "), one percent-escape ("%2F") or an indivisible run  *)
(* of other characters ("uploads", "txt", "a"); no run is a concatenation  *)
(* of other runs, so equality, split, substring search and case folding on *)
(* symbol sequences agree with the same operations on the characters.      *)
(***************************************************************************)
EXTENDS Integers, Sequences, FiniteSets, TLC

\* the runtime (app.py): its environment, its invocations, the app's tasks, the threads
VARIABLES S3_BUCKET_NAME, calls, active_tasks, next_task_id, threads, complete_count

\* the proxy Lambda (proxy_handler.py): one run of handler, with its locals
VARIABLES proxy

\* the provisioning script (create_memory.py): one run of wait_for_memory_creation
VARIABLES poll

\* the agent (agent.py, document_tools.py): one run of process_document, with the
\* storage calls of its tools
VARIABLES doc

\* one object key on its way through the pipeline: proxy filter, runtime validation,
\* read_text_file's check, the summary key and the event of the summary's upload
VARIABLES pipe

runtime_vars == <<S3_BUCKET_NAME, calls, active_tasks, next_task_id, threads, complete_count>>

vars == <<runtime_vars, proxy, poll, doc, pipe>>

\* ------------------------------------------------------------------------
\* Bounds of the model
\* ------------------------------------------------------------------------
\* number of invocations of the runtime entrypoint in one behaviour
MaxCalls == 2

\* number of records of an S3 event
MaxRecords == 2

\* wait_for_memory_creation is run with timeout_seconds in 0..MaxTimeout, and with
\* its default
MaxTimeout == 11

\* seconds that a get_memory call and the rest of an iteration take, at most, on top of
\* the sleep
MaxLatency == 1

\* number of tool calls the agent makes in one run of process_document
MaxToolCalls == 2

\* number of parts (KeyParts) an object key of the pipeline is made of, at most
MaxKeyParts == 4

\* ------------------------------------------------------------------------
\* Strings
\* ------------------------------------------------------------------------
EmptyStr == <<>>

\* stands for "no value" (Python None, an unbound local); it is no string of symbols
None == <<"<None>">>

Str(sym) == <<sym>>

\* the positions of symbol sep in s
Positions(s, sep) == {i \in 1..Len(s) : s[i] = sep}

\* str.split(sep): always count(sep) + 1 parts, empty parts included
RECURSIVE Split(_, _)
Split(s, sep) ==
    IF Positions(s, sep) = {}
    THEN <<s>>
    ELSE LET i == CHOOSE p \in Positions(s, sep) : \A q \in Positions(s, sep) : p <= q
         IN  <<SubSeq(s, 1, i - 1)>> \o Split(SubSeq(s, i + 1, Len(s)), sep)

\* sub in s
Contains(s, sub) ==
    \E i \in 1..(Len(s) - Len(sub) + 1) : SubSeq(s, i, i + Len(sub) - 1) = sub

LowerSym(c) ==
    CASE c = "TXT" -> "txt"
      [] c = "MD"  -> "md"
      [] c = "%2F" -> "%2f"
      [] OTHER     -> c

\* str.lower()
Lower(s) == [i \in 1..Len(s) |-> LowerSym(s[i])]

Last(seq) == seq[Len(seq)]

\* ------------------------------------------------------------------------
\* Inputs of the runtime entrypoint
\* ------------------------------------------------------------------------
\* stands for a field that a dict does not hold
Absent == <<"<Absent>">>

KeyUpload   == <<"a", "/", "uploads", "/", "f", ".", "txt">>
KeyDeep     == <<"/", "x", "/", "uploads", "/", "f", ".", "txt">>
KeyTwoParts == <<"a", "/", "f", ".", "txt">>
KeyOnePart  == <<"f", ".", "txt">>

RuntimeKeys == {EmptyStr, KeyOnePart, KeyTwoParts, KeyUpload, KeyDeep}

BucketB   == <<"b">>
BucketEnv == <<"envb">>

\* a payload is a dict; a field that is not in the dict is Absent
Payloads == [bucket : {Absent, EmptyStr, BucketB}, key : {Absent} \cup RuntimeKeys]

\* dict.get(name, default)
Get(d, name, default) == IF d[name] = Absent THEN default ELSE d[name]

CallIds == 1..MaxCalls

AGENTCORE_MEMORY_ID == <<"mem">>

\* a run of the proxy handler that has not been started
ProxyOff == [pc |-> "off"]

\* a run of wait_for_memory_creation that has not been started
PollOff == [pc |-> "off"]

\* a run of process_document that has not been started
DocOff == [pc |-> "off"]

\* no key is on its way
PipeOff == [pc |-> "off"]

\* ------------------------------------------------------------------------
\* app.py: invoke, the runtime entrypoint
\* ------------------------------------------------------------------------
MsgNoBucket   == "bucket name is not specified"
MsgNoKey      == "object key is not specified"
MsgBadKey     == "invalid S3 key format (expected {user_id}/uploads/{filename})"
MsgBackground == "processing started in the background"

\* key.split("/")
PathParts(key) == Split(key, "/")

\* mutant of InvokeError: a key of two segments passes
InvokeErrorTwoSegments(bucket, key) ==
    IF bucket = EmptyStr THEN MsgNoBucket
    ELSE IF key = EmptyStr THEN MsgNoKey
    ELSE IF Len(PathParts(key)) < 2 THEN MsgBadKey
    ELSE ""

\* the validation of invoke: the message of the first check that fails, "" if none does
InvokeError(bucket, key) ==
    IF bucket = EmptyStr THEN MsgNoBucket
    ELSE IF key = EmptyStr THEN MsgNoKey
    ELSE IF Len(PathParts(key)) < 3 THEN MsgBadKey
    ELSE ""

ErrorResponse(msg) == [status |-> "error", message |-> msg]

\* mutant of AckResponse: the id of the task registered last, whoever registered it
AckResponseLatest(c) ==
    [status |-> "accepted", task_id |-> next_task_id - 1, message |-> MsgBackground]

AckResponse(c) ==
    [status |-> "accepted", task_id |-> calls[c].task_id, message |-> MsgBackground]

NoResponse == [status |-> "none"]

NoPayload == [bucket |-> Absent, key |-> Absent]

\* an invocation that has not begun: no local is bound
IdleCall ==
    [pc |-> "idle", payload |-> NoPayload, bucket |-> None, key |-> None,
     actor_id |-> None, filename |-> None, task_id |-> 0, response |-> NoResponse]

\* an invocation that has returned: its locals are gone; the caller holds the payload
\* it sent and the response it got
Returned(payload, response) ==
    [IdleCall EXCEPT !.pc = "returned", !.payload = payload, !.response = response]

\* lines 148-176: read the payload, validate it, extract actor_id and filename
\* (call ids number the invocations in their order of arrival)
InvokeBegin(c, payload) ==
    /\ calls[c].pc = "idle"
    /\ \A d \in CallIds : d < c => calls[d].pc # "idle"
    /\ LET bucket == Get(payload, "bucket", S3_BUCKET_NAME)
           key    == Get(payload, "key", EmptyStr)
           err    == InvokeError(bucket, key)
       IN  calls' = [calls EXCEPT ![c] =
              IF err # ""
              THEN Returned(payload, ErrorResponse(err))
              ELSE [@ EXCEPT !.pc = "register", !.payload = payload, !.bucket = bucket,
                             !.key = key, !.actor_id = PathParts(key)[1],
                             !.filename = Last(PathParts(key))]]
    /\ UNCHANGED <<S3_BUCKET_NAME, active_tasks, next_task_id, threads, complete_count, proxy, poll, doc, pipe>>

\* lines 178-184: app.add_async_task registers a task under a fresh id and returns the id
InvokeRegister(c) ==
    /\ calls[c].pc = "register"
    /\ calls' = [calls EXCEPT ![c].pc = "start", ![c].task_id = next_task_id]
    /\ active_tasks' = active_tasks \cup {next_task_id}
    /\ complete_count' = complete_count @@ (next_task_id :> 0)
    /\ next_task_id' = next_task_id + 1
    /\ UNCHANGED <<S3_BUCKET_NAME, threads, proxy, poll, doc, pipe>>

\* the thread object of lines 188-192: target _run_background_process and its args
\* (by: the invocation whose local `thread` it is)
NewThread(c) ==
    [by |-> c, pc |-> "run", task_id |-> calls[c].task_id, bucket |-> calls[c].bucket,
     key |-> calls[c].key, actor_id |-> calls[c].actor_id,
     memory_id |-> AGENTCORE_MEMORY_ID]

\* lines 186-193: thread.start()
InvokeStart(c) ==
    /\ calls[c].pc = "start"
    /\ threads' = threads \cup {NewThread(c)}
    /\ calls' = [calls EXCEPT ![c].pc = "ack"]
    /\ UNCHANGED <<S3_BUCKET_NAME, active_tasks, next_task_id, complete_count, proxy, poll, doc, pipe>>

\* mutant of InvokeReturn: the invocation joins its thread before it returns
InvokeReturnAfterJoin(c) ==
    /\ calls[c].pc = "ack"
    /\ \A th \in threads : th.by = c => th.pc = "done"
    /\ calls' = [calls EXCEPT ![c] = Returned(calls[c].payload, AckResponse(c))]
    /\ UNCHANGED <<S3_BUCKET_NAME, active_tasks, next_task_id, threads, complete_count, proxy, poll, doc, pipe>>

\* lines 195-201: return the acknowledgement
InvokeReturn(c) ==
    /\ calls[c].pc = "ack"
    /\ calls' = [calls EXCEPT ![c] = Returned(calls[c].payload, AckResponse(c))]
    /\ UNCHANGED <<S3_BUCKET_NAME, active_tasks, next_task_id, threads, complete_count, proxy, poll, doc, pipe>>

\* ------------------------------------------------------------------------
\* app.py: _run_background_process, the body of a background thread
\* ------------------------------------------------------------------------
\* process_document returns a result with success True or False, or raises
Outcomes == {"success", "failure", "raise"}

\* app.complete_async_task(task_id): the task is no longer active
CompleteAsyncTask(task_id) ==
    /\ active_tasks' = active_tasks \ {task_id}
    /\ complete_count' = [complete_count EXCEPT ![task_id] = @ + 1]

\* mutant of RunBackgroundProcess: the task is completed at the end of the try block,
\* so that an exception of process_document skips it
RunBackgroundProcessInTry(th, outcome) ==
    /\ th.pc = "run"
    /\ IF outcome = "raise"
       THEN UNCHANGED <<active_tasks, complete_count>>
       ELSE CompleteAsyncTask(th.task_id)
    /\ threads' = (threads \ {th}) \cup {[th EXCEPT !.pc = "done"]}
    /\ UNCHANGED <<S3_BUCKET_NAME, calls, next_task_id, proxy, poll, doc, pipe>>

\* mutant of RunBackgroundProcess: the run completes the task registered last, not the
\* task it was started with
RunBackgroundProcessLatestTask(th, outcome) ==
    /\ th.pc = "run"
    /\ outcome \in Outcomes
    /\ CompleteAsyncTask(next_task_id - 1)
    /\ threads' = (threads \ {th}) \cup {[th EXCEPT !.pc = "done"]}
    /\ UNCHANGED <<S3_BUCKET_NAME, calls, next_task_id, proxy, poll, doc, pipe>>

\* lines 88-111: process_document ends with `outcome`; the try block's branches and
\* the except clause only log; the finally clause completes the task in every case;
\* the thread ends
RunBackgroundProcess(th, outcome) ==
    /\ th.pc = "run"
    /\ outcome \in Outcomes
    /\ CompleteAsyncTask(th.task_id)
    /\ threads' = (threads \ {th}) \cup {[th EXCEPT !.pc = "done"]}
    /\ UNCHANGED <<S3_BUCKET_NAME, calls, next_task_id, proxy, poll, doc, pipe>>

\* the ping status the runtime reports
PingStatus == IF active_tasks = {} THEN "Healthy" ELSE "HealthyBusy"

InitRuntime ==
    /\ S3_BUCKET_NAME \in {EmptyStr, BucketEnv}
    /\ calls = [c \in CallIds |-> IdleCall]
    /\ active_tasks = {}
    /\ next_task_id = 1
    /\ threads = {}
    /\ complete_count = <<>>

\* the runtime before any invocation; the proxy Lambda is not running
Init == InitRuntime /\ proxy = ProxyOff /\ poll = PollOff /\ doc = DocOff /\ pipe = PipeOff

NextRuntime ==
    \/ \E c \in CallIds, payload \in Payloads : InvokeBegin(c, payload)
    \/ \E c \in CallIds : InvokeRegister(c)
    \/ \E c \in CallIds : InvokeStart(c)
    \/ \E c \in CallIds : InvokeReturn(c)
    \/ \E th \in threads, outcome \in Outcomes : RunBackgroundProcess(th, outcome)

\* every step but the arrival of a new invocation
ProgressRuntime ==
    \/ \E c \in CallIds : InvokeRegister(c) \/ InvokeStart(c) \/ InvokeReturn(c)
    \/ \E th \in threads, outcome \in Outcomes : RunBackgroundProcess(th, outcome)

Spec == Init /\ [][NextRuntime]_vars

\* an invocation that has begun runs to its return, process_document ends (by a result
\* or an exception) and a thread that has left the try block runs its finally clause
FairSpec == Spec /\ WF_vars(ProgressRuntime)

\* ------------------------------------------------------------------------
\* Properties of the runtime entrypoint
\* ------------------------------------------------------------------------
\* the bucket invoke works with: the payload's, or S3_BUCKET_NAME if it holds none
EffectiveBucket(payload) ==
    IF payload.bucket = Absent THEN S3_BUCKET_NAME ELSE payload.bucket

EffectiveKey(payload) == IF payload.key = Absent THEN EmptyStr ELSE payload.key

\* number of "/"-separated segments of a key
Segments(key) == Cardinality(Positions(key, "/")) + 1

PassesValidation(payload) ==
    /\ EffectiveBucket(payload) # EmptyStr
    /\ EffectiveKey(payload) # EmptyStr
    /\ Segments(EffectiveKey(payload)) >= 3

Accepted(c) == calls[c].pc = "returned" /\ calls[c].response.status = "accepted"

ThreadsOf(c) == {th \in threads : th.by = c}

\* C1: an invocation that has returned for a payload that passes validation has
\* answered "accepted" with the id of a registered task that no other invocation was
\* given, and exactly one thread was started for it, with that task id; as many tasks
\* have been registered as invocations have passed add_async_task, and as many
\* threads started as invocations have passed thread.start().
C1_AcceptRegistersOneTaskAndThread ==
    /\ \A c \in CallIds :
          (calls[c].pc = "returned" /\ PassesValidation(calls[c].payload)) =>
             /\ calls[c].response.status = "accepted"
             /\ DOMAIN calls[c].response = {"status", "task_id", "message"}
             /\ calls[c].response.task_id \in DOMAIN complete_count
             /\ Cardinality(ThreadsOf(c)) = 1
             /\ \A th \in ThreadsOf(c) : th.task_id = calls[c].response.task_id
             /\ \A d \in CallIds \ {c} :
                   Accepted(d) => calls[d].response.task_id # calls[c].response.task_id
    /\ Cardinality(DOMAIN complete_count)
          = Cardinality({c \in CallIds : calls[c].pc \in {"start", "ack"} \/ Accepted(c)})
    /\ Cardinality(threads)
          = Cardinality({c \in CallIds : calls[c].pc = "ack" \/ Accepted(c)})

\* C1 witness: the acknowledgement is with the caller while process_document runs
C1_AckWhileRunning ==
    \E c \in CallIds :
       /\ Accepted(c)
       /\ \E th \in ThreadsOf(c) :
             th.pc = "run" /\ th.task_id = calls[c].response.task_id
                           /\ th.task_id \in active_tasks

TaskIds == 1..MaxCalls

\* how many times complete_async_task was called for task t
Completions(t) == IF t \in DOMAIN complete_count THEN complete_count[t] ELSE 0

\* every thread has ended and no invocation holds a task it has yet to start a thread for
AllRunsFinished ==
    /\ \A th \in threads : th.pc = "done"
    /\ \A c \in CallIds : calls[c].pc # "start"

\* C2: a registered task is eventually marked complete, and never more than once;
\* once every background run has finished no task is outstanding and the ping status
\* is Healthy again.
C2_EveryTaskCompletedOnce ==
    /\ [](\A t \in DOMAIN complete_count : complete_count[t] <= 1)
    /\ \A t \in TaskIds :
          (t \in DOMAIN complete_count)
             ~> (Completions(t) = 1 /\ t \notin active_tasks)
    /\ [](AllRunsFinished =>
             /\ active_tasks = {}
             /\ PingStatus = "Healthy"
             /\ \A t \in DOMAIN complete_count : complete_count[t] = 1)

\* C2 witness: every invocation was accepted, every run has finished, each task was
\* completed once and the runtime is Healthy
C2_AllCompleted ==
    /\ \A c \in CallIds : Accepted(c)
    /\ AllRunsFinished
    /\ DOMAIN complete_count = TaskIds
    /\ \A t \in TaskIds : complete_count[t] = 1
    /\ PingStatus = "Healthy"

\* the step by which invocation c reads its payload
Begins(c) == calls[c].pc = "idle" /\ calls'[c].pc # "idle"

\* C3: an invocation whose payload fails validation (empty bucket after the fallback
\* to S3_BUCKET_NAME, empty key, or a key of fewer than 3 segments) returns at once a
\* response {status: "error", message} without task_id, and registers no task and
\* starts no thread.
C3_InvalidPayloadRejected ==
    [][\A c \in CallIds :
          (Begins(c) /\ ~PassesValidation(calls'[c].payload)) =>
             /\ calls'[c].pc = "returned"
             /\ calls'[c].response.status = "error"
             /\ DOMAIN calls'[c].response = {"status", "message"}
             /\ calls'[c].response.message # ""
             /\ UNCHANGED <<active_tasks, next_task_id, threads, complete_count>>
             /\ ThreadsOf(c) = {}]_vars

\* C3 witness: each of the three checks has rejected a payload, and nothing is registered
C3_Rejected ==
    /\ \E c \in CallIds :
          /\ calls[c].pc = "returned"
          /\ calls[c].response = ErrorResponse(MsgBadKey)
          /\ calls[c].payload.key = KeyTwoParts
    /\ \E c \in CallIds :
          /\ calls[c].pc = "returned"
          /\ calls[c].response = ErrorResponse(MsgNoBucket)
          /\ calls[c].payload.bucket = Absent
    /\ active_tasks = {}
    /\ threads = {}
    /\ next_task_id = 1

\* C4 (the claim as stated): every key handed to process_document has "uploads" as its
\* second segment and the actor id is its non-empty first segment.
C4_AcceptedKeyIsUserUploadsFile ==
    \A th \in threads :
       /\ PathParts(th.key)[2] = Str("uploads")
       /\ th.actor_id = PathParts(th.key)[1]
       /\ th.actor_id # EmptyStr

\* the background run of invocation c has ended
RunEnded(c) == ThreadsOf(c) # {} /\ \A th \in ThreadsOf(c) : th.pc = "done"

\* C13 (the claim as stated): the runtime offers a synchronous mode, in which the
\* response is returned only after the summary has been produced. A mode is chosen by
\* the payload, the only input of invoke: some payload that passes validation is
\* answered only once its background run has ended.
C13_SomePayloadIsServedSynchronously ==
    \E p \in Payloads :
       /\ PassesValidation(p)
       /\ \A c \in CallIds :
             (calls[c].pc = "returned" /\ calls[c].payload = p) => RunEnded(c)

\* C13 (amended): the runtime has the asynchronous mode only. An invocation that has
\* started its thread can return at once, whatever the state of the run (invoke never
\* waits for it), and what it returns is the acknowledgement: status, task_id and
\* message, nothing the run has produced.
C13_OnlyAsynchronousMode ==
    \A c \in CallIds :
       /\ calls[c].pc = "ack" => ENABLED InvokeReturn(c)
       /\ Accepted(c) =>
             /\ DOMAIN calls[c].response = {"status", "task_id", "message"}
             /\ calls[c].response.message = MsgBackground

\* every invocation has been acknowledged and none of the runs has ended
C13_AllAcknowledgedNoneEnded ==
    /\ \A c \in CallIds : Accepted(c) /\ ~RunEnded(c)
    /\ \A th \in threads : th.pc = "run"
    /\ Cardinality(threads) = MaxCalls

\* the background runs that have not reached their completion step
UnfinishedRuns == {th \in threads : th.pc = "run"}

\* the invocations between add_async_task and thread.start()
AboutToStart == {c \in CallIds : calls[c].pc = "start"}

\* each run completes the task id it was started with, and only that one: a task has
\* been completed once for every ended run that was started with it; and the id a run
\* was started with was registered before
RunsCompleteTheirOwnTask ==
    /\ \A t \in DOMAIN complete_count :
          complete_count[t] = Cardinality({th \in threads : th.pc = "done" /\ th.task_id = t})
    /\ \A th \in threads : th.task_id \in DOMAIN complete_count
    /\ active_tasks \subseteq DOMAIN complete_count

\* C15 (the claim as stated): each background run completes only the task id it was
\* started with, no completion precedes its registration, and in every reachable state
\* the number of registered-but-not-completed tasks equals the number of background
\* runs that have not yet reached their completion step.
C15_ActiveTasksEqualUnfinishedRuns ==
    /\ RunsCompleteTheirOwnTask
    /\ Cardinality(active_tasks) = Cardinality(UnfinishedRuns)

\* C15 (amended): each background run completes only the task id it was started with,
\* no completion precedes its registration, and in every reachable state the
\* registered-but-not-completed tasks are those of the unfinished background runs
\* together with those of the invocations that have registered their task and have
\* not started their thread yet.
C15_ActiveTasksAreUnfinishedOrAboutToStart ==
    /\ RunsCompleteTheirOwnTask
    /\ active_tasks = {th.task_id : th \in UnfinishedRuns}
                          \cup {calls[c].task_id : c \in AboutToStart}
    /\ Cardinality(active_tasks)
          = Cardinality(UnfinishedRuns) + Cardinality(AboutToStart)

\* one run has completed its task while another invocation has registered its task
\* and not started its thread
C15_OneCompletedOneAboutToStart ==
    /\ \E th \in threads : th.pc = "done" /\ Completions(th.task_id) = 1
                                          /\ th.task_id \notin active_tasks
    /\ \E c \in AboutToStart : calls[c].task_id \in active_tasks
    /\ UnfinishedRuns = {}

\* ------------------------------------------------------------------------
\* proxy_handler.py: the inputs of handler
\* ------------------------------------------------------------------------
\* object keys as S3 event notifications carry them (URL-encoded)
EncUpload    == <<"a", "/", "uploads", "/", "f", ".", "txt">>
EncUpperMd   == <<"a", "/", "uploads", "/", "f", ".", "MD">>
EncEscaped   == <<"a", "%2F", "uploads", "%2F", "f", "+", "g", ".", "md">>
EncPdf       == <<"a", "/", "uploads", "/", "f", ".", "pdf">>
EncNoExt     == <<"a", "/", "uploads", "/", "f">>
EncSummary   == <<"a", "/", "summaries", "/", "f", ".", "txt">>
EncDotInDir  == <<"a", ".", "txt", "/", "uploads", "/", "f">>

EncodedKeys ==
    {EncUpload, EncUpperMd, EncEscaped, EncPdf, EncNoExt, EncSummary, EncDotInDir}

\* a record of the event: a dict with s3.bucket.name and s3.object.key (either may be
\* missing), or a value that is no dict
NotADict == [dict |-> FALSE, bucket |-> Absent, key |-> Absent]

ProxyRecords ==
    [dict : {TRUE}, bucket : {Absent, BucketB}, key : {Absent} \cup EncodedKeys]
       \cup {NotADict}

RECURSIVE SeqsUpTo(_, _)
SeqsUpTo(S, n) ==
    IF n = 0 THEN {<<>>}
    ELSE LET shorter == SeqsUpTo(S, n - 1)
         IN  shorter \cup {Append(q, x) : q \in shorter, x \in S}

\* an event: a dict that may hold "Records"
Events ==
    {[has_records |-> FALSE, Records |-> <<>>]}
       \cup {[has_records |-> TRUE, Records |-> rs] : rs \in SeqsUpTo(ProxyRecords, MaxRecords)}

\* what agentcore_client.invoke_agent does: it raises ClientError or another
\* exception, or returns a response whose "completion" is missing, is a JSON text or
\* is a dict already; the JSON text may be malformed, and the dict may lack fields
\* (a missing field reads as "None")
RuntimeOutcomes ==
    {[kind |-> "ClientError", form |-> "none", status |-> "None", task_id |-> "None",
      message |-> "None"],
     [kind |-> "Exception", form |-> "none", status |-> "None", task_id |-> "None",
      message |-> "None"],
     [kind |-> "response", form |-> "absent", status |-> "None", task_id |-> "None",
      message |-> "None"],
     [kind |-> "response", form |-> "badtext", status |-> "None", task_id |-> "None",
      message |-> "None"],
     [kind |-> "response", form |-> "text", status |-> "accepted", task_id |-> "task-1",
      message |-> MsgBackground],
     [kind |-> "response", form |-> "dict", status |-> "accepted", task_id |-> "task-1",
      message |-> "None"],
     [kind |-> "response", form |-> "text", status |-> "error", task_id |-> "None",
      message |-> MsgBadKey],
     [kind |-> "response", form |-> "dict", status |-> "error", task_id |-> "None",
      message |-> "None"]}

\* ------------------------------------------------------------------------
\* proxy_handler.py: get_file_extension, invoke_agentcore_runtime
\* ------------------------------------------------------------------------
SUPPORTED_EXTENSIONS == {<<".", "txt">>, <<".", "md">>}

UnquoteSym(c) ==
    CASE c = "+"   -> " "
      [] c = "%2F" -> "/"
      [] OTHER     -> c

\* urllib.parse.unquote_plus
unquote_plus(s) == [i \in 1..Len(s) |-> UnquoteSym(s[i])]

\* mutant of get_file_extension: the extension is not lowered
get_file_extension_cased(key) ==
    IF Positions(key, ".") = {} THEN EmptyStr
    ELSE Str(".") \o Last(Split(key, "."))

get_file_extension(key) ==
    IF Positions(key, ".") = {} THEN EmptyStr
    ELSE Str(".") \o Lower(Last(Split(key, ".")))

MsgRuntimeClientError == "AgentCore Runtime call error (ClientError)"
MsgRuntimeUnexpected  == "unexpected error during AgentCore Runtime call"
MsgAcceptedDefault    == "processing accepted"
MsgRejectedDefault    == "processing was not accepted"

\* what invoke_agentcore_runtime returns; raised is TRUE if an exception leaves it
RuntimeResult(accepted, task_id, message) ==
    [raised |-> FALSE, accepted |-> accepted, task_id |-> task_id, message |-> message]

RuntimeRaised ==
    [raised |-> TRUE, accepted |-> FALSE, task_id |-> "None", message |-> "None"]

\* lines 253-275: the response is parsed and its status decides
ParsedResult(outcome) ==
    LET result == IF outcome.form = "absent"
                  THEN [status |-> "None", task_id |-> "None", message |-> "None"]
                  ELSE [status |-> outcome.status, task_id |-> outcome.task_id,
                        message |-> outcome.message]
    IN  IF result.status = "accepted"
        THEN RuntimeResult(TRUE, result.task_id,
                 IF result.message = "None" THEN MsgAcceptedDefault ELSE result.message)
        ELSE RuntimeResult(FALSE, "None",
                 IF result.message = "None" THEN MsgRejectedDefault ELSE result.message)

\* mutant of invoke_agentcore_runtime: only ClientError is caught
invoke_agentcore_runtime_client_only(bucket, key, outcome) ==
    IF outcome.kind = "ClientError" THEN RuntimeResult(FALSE, "None", MsgRuntimeClientError)
    ELSE IF outcome.kind = "Exception" \/ outcome.form = "badtext" THEN RuntimeRaised
    ELSE ParsedResult(outcome)

\* lines 236-294
invoke_agentcore_runtime(bucket, key, outcome) ==
    IF outcome.kind = "ClientError" THEN RuntimeResult(FALSE, "None", MsgRuntimeClientError)
    ELSE IF outcome.kind = "Exception" \/ outcome.form = "badtext"
         THEN RuntimeResult(FALSE, "None", MsgRuntimeUnexpected)
    ELSE ParsedResult(outcome)

\* ------------------------------------------------------------------------
\* proxy_handler.py: handler
\* ------------------------------------------------------------------------
MsgNoRecords     == "no records to process"
MsgNoBucketOrKey == "bucket name or key could not be read"
MsgException     == "exception while processing the record"
Unknown          == <<"unknown">>
SlashUploadsSlash == <<"/", "uploads", "/">>

SkipExtension(file_extension) == Str("unsupported extension, skipped: ") \o file_extension
SkipNotUploads == Str("not under an uploads directory, skipped")

\* lines 171-178: the except clause; a local that no iteration has bound yet reads
\* "unknown", a bound one keeps the value of the iteration that bound it last
OnException(p) ==
    [p EXCEPT !.errors = Append(@, [bucket |-> IF p.bucket = None THEN Unknown ELSE p.bucket,
                                    key    |-> IF p.key = None THEN Unknown ELSE p.key,
                                    error  |-> MsgException])]

\* lines 154-169: the runtime is called (the call and its outcome are logged in
\* runtime_calls) and its result decides between accepted and errors
Forward(p, outcome) ==
    LET result == invoke_agentcore_runtime(p.bucket, p.key, outcome)
        called == [p EXCEPT !.runtime_calls =
                      Append(@, [bucket |-> p.bucket, key |-> p.key, outcome |-> outcome])]
    IN  IF result.raised THEN OnException(called)
        ELSE IF result.accepted
        THEN [called EXCEPT !.accepted =
                 Append(@, [bucket |-> p.bucket, key |-> p.key,
                            task_id |-> result.task_id, message |-> result.message])]
        ELSE [called EXCEPT !.errors =
                 Append(@, [bucket |-> p.bucket, key |-> p.key, error |-> result.message])]

\* mutant of Filter: the uploads check appends to skipped and does not `continue`
FilterFallsThrough(p, outcome) ==
    IF p.bucket = EmptyStr \/ p.key = EmptyStr
    THEN [p EXCEPT !.errors =
             Append(@, [bucket |-> p.bucket, key |-> p.key, error |-> MsgNoBucketOrKey])]
    ELSE IF get_file_extension(p.key) \notin SUPPORTED_EXTENSIONS
    THEN [p EXCEPT !.skipped =
             Append(@, [bucket |-> p.bucket, key |-> p.key,
                        reason |-> SkipExtension(get_file_extension(p.key))])]
    ELSE IF ~Contains(p.key, SlashUploadsSlash)
    THEN Forward([p EXCEPT !.skipped =
             Append(@, [bucket |-> p.bucket, key |-> p.key, reason |-> SkipNotUploads])],
             outcome)
    ELSE Forward(p, outcome)

\* lines 130-169: the checks on bucket and key, each ending the iteration, then the call
Filter(p, outcome) ==
    IF p.bucket = EmptyStr \/ p.key = EmptyStr
    THEN [p EXCEPT !.errors =
             Append(@, [bucket |-> p.bucket, key |-> p.key, error |-> MsgNoBucketOrKey])]
    ELSE IF get_file_extension(p.key) \notin SUPPORTED_EXTENSIONS
    THEN [p EXCEPT !.skipped =
             Append(@, [bucket |-> p.bucket, key |-> p.key,
                        reason |-> SkipExtension(get_file_extension(p.key))])]
    ELSE IF ~Contains(p.key, SlashUploadsSlash)
    THEN [p EXCEPT !.skipped =
             Append(@, [bucket |-> p.bucket, key |-> p.key, reason |-> SkipNotUploads])]
    ELSE Forward(p, outcome)

\* lines 118-178: one iteration of the loop over the records
LoopBody(p, record, outcome) ==
    IF ~record.dict
    THEN OnException(p)
    ELSE Filter([p EXCEPT !.bucket = Get(record, "bucket", EmptyStr),
                          !.key = unquote_plus(Get(record, "key", EmptyStr))],
                outcome)

\* mutant of StatusCode: a skipped record counts as a failure
StatusCodeCountsSkipped(p) == IF p.errors = <<>> /\ p.skipped = <<>> THEN 200 ELSE 207

\* line 187
StatusCode(p) == IF p.errors = <<>> THEN 200 ELSE 207

\* the handler is entered with `event`: lines 96-101
ProxyEntered(event) ==
    [pc |-> "start", event |-> event, records |-> <<>>, idx |-> 0, bucket |-> None,
     key |-> None, accepted |-> <<>>, skipped |-> <<>>, errors |-> <<>>,
     runtime_calls |-> <<>>,
     result |-> [statusCode |-> 0, body |-> [accepted |-> <<>>, skipped |-> <<>>,
                                              errors |-> <<>>]]]

\* lines 103-116: event.get("Records", []); an event without records is answered at once
\* (the body is the JSON text of the dict modelled here)
HandlerStart ==
    /\ proxy.pc = "start"
    /\ LET records == IF proxy.event.has_records THEN proxy.event.Records ELSE <<>>
       IN  proxy' = IF records = <<>>
                    THEN [proxy EXCEPT !.pc = "returned",
                             !.result = [statusCode |-> 200,
                                         body |-> [message |-> MsgNoRecords,
                                                   accepted |-> <<>>, skipped |-> <<>>,
                                                   errors |-> <<>>]]]
                    ELSE [proxy EXCEPT !.pc = "loop", !.records = records]
    /\ UNCHANGED <<runtime_vars, poll, doc, pipe>>

\* lines 118-178: the iteration for the next record
HandleRecord(outcome) ==
    /\ proxy.pc = "loop"
    /\ proxy.idx < Len(proxy.records)
    /\ proxy' = [LoopBody(proxy, proxy.records[proxy.idx + 1], outcome)
                    EXCEPT !.idx = proxy.idx + 1]
    /\ UNCHANGED <<runtime_vars, poll, doc, pipe>>

\* lines 180-193: the loop has ended
HandlerReturn ==
    /\ proxy.pc = "loop"
    /\ proxy.idx = Len(proxy.records)
    /\ proxy' = [proxy EXCEPT !.pc = "returned",
                    !.result = [statusCode |-> StatusCode(proxy),
                                body |-> [accepted |-> proxy.accepted,
                                          skipped |-> proxy.skipped,
                                          errors |-> proxy.errors]]]
    /\ UNCHANGED <<runtime_vars, poll, doc, pipe>>

\* one run of handler on an event; the runtime is the remote service behind
\* invoke_agent and is not part of this specification's state
InitProxy ==
    /\ \E event \in Events : proxy = ProxyEntered(event)
    /\ poll = PollOff
    /\ doc = DocOff
    /\ pipe = PipeOff
    /\ S3_BUCKET_NAME = EmptyStr
    /\ calls = [c \in CallIds |-> IdleCall]
    /\ active_tasks = {}
    /\ next_task_id = 1
    /\ threads = {}
    /\ complete_count = <<>>

NextProxy ==
    \/ HandlerStart
    \/ \E outcome \in RuntimeOutcomes : HandleRecord(outcome)
    \/ HandlerReturn

SpecProxy == InitProxy /\ [][NextProxy]_vars

\* ------------------------------------------------------------------------
\* Properties of the proxy handler
\* ------------------------------------------------------------------------
NumRecords(event) == IF event.has_records THEN Len(event.Records) ELSE 0

\* the records the loop has dealt with
Processed == SubSeq(proxy.records, 1, proxy.idx)

\* the (bucket, key) pairs of a list of entries, in order
Pairs(entries) == [i \in 1..Len(entries) |-> <<entries[i].bucket, entries[i].key>>]

RecordBucket(r) == IF r.bucket = Absent THEN EmptyStr ELSE r.bucket

\* the record's key, URL-decoded
RecordKey(r) == unquote_plus(IF r.key = Absent THEN EmptyStr ELSE r.key)

RecordPairs(rs) == [i \in 1..Len(rs) |-> <<RecordBucket(rs[i]), RecordKey(rs[i])>>]

InLoopOrReturned == proxy.pc \in {"loop", "returned"}

\* C5: at every point of the loop the three lists hold together one entry per record
\* dealt with; the handler returns only after the last record, so that its three
\* lists hold as many entries as the event has records, whatever failed on the way.
C5_EveryRecordInOneList ==
    /\ InLoopOrReturned =>
          Len(proxy.accepted) + Len(proxy.skipped) + Len(proxy.errors) = proxy.idx
    /\ proxy.pc = "returned" =>
          /\ proxy.idx = NumRecords(proxy.event)
          /\ Len(proxy.result.body.accepted) + Len(proxy.result.body.skipped)
                + Len(proxy.result.body.errors) = NumRecords(proxy.event)

\* C5 witness: the first record raised in the loop body, the second was accepted
C5_FailureThenAccepted ==
    /\ proxy.pc = "returned"
    /\ Len(proxy.records) = 2
    /\ proxy.records[1] = NotADict
    /\ Len(proxy.result.body.errors) = 1
    /\ proxy.result.body.errors[1].error = MsgException
    /\ Len(proxy.result.body.accepted) = 1
    /\ proxy.result.body.accepted[1].key = EncUpload

\* the part of a key after its last "."
AfterLastDot(key) ==
    LET dots == Positions(key, ".")
        last == CHOOSE i \in dots : \A j \in dots : j <= i
    IN  SubSeq(key, last + 1, Len(key))

\* the key's extension is .txt or .md, whatever the case of its letters
TxtOrMd(key) ==
    /\ Positions(key, ".") # {}
    /\ \E ext \in {<<"txt">>, <<"TXT">>, <<"md">>, <<"MD">>} : AfterLastDot(key) = ext

EmptyBucketOrKey(r) == r.dict /\ (RecordBucket(r) = EmptyStr \/ RecordKey(r) = EmptyStr)

MayForward(r) ==
    /\ r.dict
    /\ RecordBucket(r) # EmptyStr
    /\ RecordKey(r) # EmptyStr
    /\ TxtOrMd(RecordKey(r))
    /\ Contains(RecordKey(r), SlashUploadsSlash)

MustSkip(r) == r.dict /\ ~EmptyBucketOrKey(r) /\ ~MayForward(r)

IsNoBucketOrKeyError(e) == e.error = MsgNoBucketOrKey

\* C6: the runtime was called exactly for the records dealt with that have a
\* non-empty bucket and decoded key, a .txt or .md extension in any case and
\* "/uploads/" in the key, once each and in order; the records with an empty bucket or
\* key are the "could not be read" entries of errors, and the other records that may
\* not be forwarded are the entries of skipped.
C6_OnlyUploadsOfTextAreForwarded ==
    InLoopOrReturned =>
       /\ Pairs(proxy.runtime_calls) = RecordPairs(SelectSeq(Processed, MayForward))
       /\ Pairs(proxy.skipped) = RecordPairs(SelectSeq(Processed, MustSkip))
       /\ Pairs(SelectSeq(proxy.errors, IsNoBucketOrKeyError))
             = RecordPairs(SelectSeq(Processed, EmptyBucketOrKey))

\* C6 witness: of two records, the upper-case .MD upload was forwarded and the other
\* was skipped
C6_ForwardedAndSkipped ==
    /\ proxy.pc = "returned"
    /\ Len(proxy.runtime_calls) = 1
    /\ proxy.runtime_calls[1].key = EncUpperMd
    /\ Len(proxy.skipped) = 1
    /\ proxy.skipped[1].key = EncSummary

\* C7: the handler returns 200 if its errors list is empty and 207 if not, whatever
\* was skipped; for an event without records it returns 200 and three empty lists,
\* and the runtime was not called.
C7_StatusCodeFromErrors ==
    proxy.pc = "returned" =>
       /\ proxy.result.statusCode = (IF proxy.result.body.errors = <<>> THEN 200 ELSE 207)
       /\ NumRecords(proxy.event) = 0 =>
             /\ proxy.result.statusCode = 200
             /\ proxy.result.body.accepted = <<>>
             /\ proxy.result.body.skipped = <<>>
             /\ proxy.result.body.errors = <<>>
             /\ proxy.runtime_calls = <<>>

\* C7 witness: every record was skipped and the status code is 200
C7_SkippedOnlyIs200 ==
    /\ proxy.pc = "returned"
    /\ Len(proxy.result.body.skipped) = 2
    /\ proxy.result.body.errors = <<>>
    /\ proxy.result.statusCode = 200

\* the runtime answered the call with a response whose status is "accepted"
AnsweredAccepted(call) ==
    /\ call.outcome.kind = "response"
    /\ call.outcome.form \in {"text", "dict"}
    /\ call.outcome.status = "accepted"

NotAnsweredAccepted(call) == ~AnsweredAccepted(call)

IsRuntimeError(e) == e.error \notin {MsgNoBucketOrKey, MsgException}

IsExceptionError(e) == e.error = MsgException

IsNotADict(r) == ~r.dict

\* C8: the accepted list holds, in order, the calls the runtime answered with status
\* "accepted", each with the task id of the answer; every other call (ClientError,
\* another exception, unreadable or missing completion, another status) is an entry of
\* errors with the message invoke_agentcore_runtime returned, and no call made the
\* loop's except clause run: that one ran for the records that are no dict only.
C8_AcceptedIffRuntimeAccepted ==
    InLoopOrReturned =>
       /\ Pairs(proxy.accepted) = Pairs(SelectSeq(proxy.runtime_calls, AnsweredAccepted))
       /\ \A i \in 1..Len(proxy.accepted) :
             proxy.accepted[i].task_id
                = SelectSeq(proxy.runtime_calls, AnsweredAccepted)[i].outcome.task_id
       /\ Pairs(SelectSeq(proxy.errors, IsRuntimeError))
             = Pairs(SelectSeq(proxy.runtime_calls, NotAnsweredAccepted))
       /\ Len(SelectSeq(proxy.errors, IsExceptionError))
             = Len(SelectSeq(Processed, IsNotADict))

\* C8 witness: of two calls, one was answered "accepted" and the other raised inside
\* invoke_agentcore_runtime, which returned accepted False
C8_OneAcceptedOneFailed ==
    /\ proxy.pc = "returned"
    /\ Len(proxy.runtime_calls) = 2
    /\ AnsweredAccepted(proxy.runtime_calls[1])
    /\ proxy.runtime_calls[2].outcome.form = "badtext"
    /\ Len(proxy.result.body.accepted) = 1
    /\ Len(proxy.result.body.errors) = 1
    /\ proxy.result.body.errors[1].error = MsgRuntimeUnexpected

\* ------------------------------------------------------------------------
\* create_memory.py: wait_for_memory_creation
\* ------------------------------------------------------------------------
POLLING_INTERVAL_SECONDS == 5

CREATION_TIMEOUT_SECONDS == 300

Timeouts == 0..MaxTimeout \cup {CREATION_TIMEOUT_SECONDS}

\* what client.get_memory does: it returns a response with a status or without one,
\* or raises ClientError, or raises another exception
GetMemoryReplies ==
    {"ACTIVE", "FAILED", "DELETED", "CREATING", "no status", "ClientError", "Exception"}

\* response.get("status", "UNKNOWN")
StatusOf(reply) == IF reply = "no status" THEN "UNKNOWN" ELSE reply

\* mutant of TimedOut: the timeout is reached, not exceeded
TimedOutAtTimeout(elapsed, timeout_seconds) == elapsed >= timeout_seconds

\* line 189
TimedOut(elapsed, timeout_seconds) == elapsed > timeout_seconds

\* lines 183-184: the clock is read (in whole seconds) and the loop is entered
PollEntered(timeout_seconds, now) ==
    [pc |-> "polling", timeout_seconds |-> timeout_seconds, start_time |-> now,
     now |-> now, elapsed |-> 0, reply |-> "none", status |-> "none",
     last_status |-> "", exc |-> "none", retval |-> "none", polls |-> 0]

\* time.sleep(POLLING_INTERVAL_SECONDS), and the time the iteration itself took
Slept(p, latency) == [p EXCEPT !.now = @ + POLLING_INTERVAL_SECONDS + latency]

\* lines 213-216: a ClientError is logged and the loop goes on after the sleep
AfterClientError(p, latency) == Slept(p, latency)

\* lines 197-211: the status is read, remembered if it changed, and decides
AfterStatus(p, status, latency) ==
    LET q == [p EXCEPT !.status = status,
                       !.last_status = IF status # p.last_status THEN status ELSE @]
    IN  IF status = "ACTIVE" THEN [q EXCEPT !.pc = "returned", !.retval = status]
        ELSE IF status \in {"FAILED", "DELETED"}
             THEN [q EXCEPT !.pc = "raised", !.exc = "RuntimeError: creation failed"]
        ELSE Slept(q, latency)

\* mutant of PollIteration: the timeout is checked after get_memory, inside the try
\* block, so that a ClientError skips the check (the clock is capped)
PollIterationTimeoutInTry(reply, latency) ==
    /\ poll.pc = "polling"
    /\ poll.now - poll.start_time <= poll.timeout_seconds + 4 * POLLING_INTERVAL_SECONDS
    /\ LET elapsed == poll.now - poll.start_time
           called  == [poll EXCEPT !.elapsed = elapsed, !.reply = reply, !.polls = @ + 1]
       IN  poll' =
              IF reply = "ClientError" THEN AfterClientError(called, latency)
              ELSE IF TimedOut(elapsed, poll.timeout_seconds)
                   THEN [called EXCEPT !.pc = "raised", !.exc = "RuntimeError: timeout"]
              ELSE IF reply = "Exception"
                   THEN [called EXCEPT !.pc = "raised", !.exc = "Exception"]
              ELSE AfterStatus(called, StatusOf(reply), latency)
    /\ UNCHANGED <<runtime_vars, proxy, doc, pipe>>

\* lines 186-216: one iteration of the loop; get_memory answers `reply`
PollIteration(reply, latency) ==
    /\ poll.pc = "polling"
    /\ LET elapsed == poll.now - poll.start_time
           p       == [poll EXCEPT !.elapsed = elapsed]
       IN  poll' =
              IF TimedOut(elapsed, poll.timeout_seconds)
              THEN [p EXCEPT !.pc = "raised", !.exc = "RuntimeError: timeout"]
              ELSE LET called == [p EXCEPT !.reply = reply, !.polls = @ + 1]
                   IN  IF reply = "ClientError" THEN AfterClientError(called, latency)
                       ELSE IF reply = "Exception"
                            THEN [called EXCEPT !.pc = "raised", !.exc = "Exception"]
                       ELSE AfterStatus(called, StatusOf(reply), latency)
    /\ UNCHANGED <<runtime_vars, proxy, doc, pipe>>

InitPoll ==
    /\ \E timeout_seconds \in Timeouts, now \in {0, 3} :
          poll = PollEntered(timeout_seconds, now)
    /\ proxy = ProxyOff
    /\ doc = DocOff
    /\ pipe = PipeOff
    /\ S3_BUCKET_NAME = EmptyStr
    /\ calls = [c \in CallIds |-> IdleCall]
    /\ active_tasks = {}
    /\ next_task_id = 1
    /\ threads = {}
    /\ complete_count = <<>>

NextPoll == \E reply \in GetMemoryReplies, latency \in 0..MaxLatency : PollIteration(reply, latency)

SpecPoll == InitPoll /\ [][NextPoll]_vars

\* the script runs on: an iteration that can be taken is taken
FairSpecPoll == SpecPoll /\ WF_vars(NextPoll)

\* ------------------------------------------------------------------------
\* Properties of wait_for_memory_creation
\* ------------------------------------------------------------------------
PollDone == poll.pc \in {"returned", "raised"}

PollRunning == poll.pc # "off"

\* C9: the function returns only on a reply with status ACTIVE, and returns "ACTIVE";
\* a reply FAILED or DELETED makes it raise RuntimeError; it raises the timeout
\* RuntimeError only when the elapsed time exceeds timeout_seconds, and does not poll
\* past such a check; after any other status (a missing one reads UNKNOWN) the loop
\* goes on, and only the timeout ends it.
C9_ReturnsOnlyActive ==
    PollRunning =>
       /\ poll.pc = "returned" <=> poll.reply = "ACTIVE"
       /\ poll.pc = "returned" => poll.retval = "ACTIVE" /\ poll.status = "ACTIVE"
       /\ poll.exc = "RuntimeError: creation failed" <=> poll.reply \in {"FAILED", "DELETED"}
       /\ poll.reply \in {"FAILED", "DELETED"} => poll.pc = "raised"
       /\ poll.exc = "RuntimeError: timeout" =>
             /\ poll.pc = "raised"
             /\ poll.now - poll.start_time > poll.timeout_seconds
       /\ poll.pc = "polling" => poll.elapsed <= poll.timeout_seconds
       /\ poll.reply \in {"CREATING", "no status"} =>
             /\ poll.pc = "polling" \/ poll.exc = "RuntimeError: timeout"
             /\ poll.status = StatusOf(poll.reply)
       /\ poll.reply = "no status" => poll.status = "UNKNOWN"

\* C9 witness: ACTIVE was returned at the third poll, at the very limit of the timeout
C9_ActiveAtTheLimit ==
    /\ poll.pc = "returned"
    /\ poll.retval = "ACTIVE"
    /\ poll.polls = 3
    /\ poll.elapsed = poll.timeout_seconds

\* a bound on the get_memory calls of one run
MaxPolls(timeout_seconds) == timeout_seconds \div POLLING_INTERVAL_SECONDS + 1

\* C10: the loop ends, whatever get_memory answers: get_memory is called at most
\* timeout_seconds / POLLING_INTERVAL_SECONDS + 1 times, a ClientError never leaves the
\* function, and the run ends by a return or an exception.
C10_PollingTerminates ==
    /\ [](PollRunning => poll.polls <= MaxPolls(poll.timeout_seconds))
    /\ [](PollRunning => poll.exc # "ClientError")
    /\ [](PollRunning /\ poll.reply = "ClientError" =>
             poll.pc = "polling" \/ poll.exc = "RuntimeError: timeout")
    /\ <>PollDone

\* C10 witness: with the default timeout the run ended by the timeout after the
\* greatest number of polls, the last of which raised ClientError
C10_TimeoutAfterClientErrors ==
    /\ poll.pc = "raised"
    /\ poll.exc = "RuntimeError: timeout"
    /\ poll.timeout_seconds = CREATION_TIMEOUT_SECONDS
    /\ poll.polls = MaxPolls(CREATION_TIMEOUT_SECONDS)
    /\ poll.reply = "ClientError"

\* ------------------------------------------------------------------------
\* document_tools.py: read_text_file and save_summary, the tools of the agent
\* ------------------------------------------------------------------------
\* line 35; the set of document_tools.py, which is not the set of proxy_handler.py
TOOLS_SUPPORTED_EXTENSIONS == {<<".", "txt">>, <<".", "md">>}

\* line 39
MAX_FILE_SIZE_BYTES == 10 * 1024 * 1024

\* ContentLength that head_object answers
FileSizes == {0, MAX_FILE_SIZE_BYTES - 1, MAX_FILE_SIZE_BYTES, MAX_FILE_SIZE_BYTES + 1}

\* what head_object does: it answers a size, or raises ClientError (a missing object
\* is a ClientError of code 404 here, not NoSuchKey)
HeadOutcomes == [kind : {"ok"}, size : FileSizes] \cup {[kind |-> "ClientError", size |-> 0]}

\* what get_object and the decoding of its body do
GetOutcomes == {"ok", "bad_utf8", "NoSuchKey", "ClientError"}

\* what put_object does; "OtherError" is an exception that is no ClientError
PutOutcomes == {"ok", "ClientError", "OtherError"}

\* mutant of read_file_extension: the extension of the file name, the last segment of
\* the key, as os.path.splitext gives it
read_file_extension_of_filename(key) ==
    LET filename == Last(Split(key, "/"))
    IN  IF Contains(filename, Str(".")) THEN Str(".") \o Lower(Last(Split(filename, ".")))
        ELSE EmptyStr

\* line 83: "." + key.split(".")[-1].lower() if "." in key else ""
read_file_extension(key) ==
    IF Contains(key, Str(".")) THEN Str(".") \o Lower(Last(Split(key, "."))) ELSE EmptyStr

\* mutant of SizeExceeds: a file of exactly the limit is refused
SizeExceedsAtLimit(file_size) == file_size >= MAX_FILE_SIZE_BYTES

\* line 100
SizeExceeds(file_size) == file_size > MAX_FILE_SIZE_BYTES

\* a call of the storage client and what it answered
S3Call(op, bucket, key, reply) == [op |-> op, bucket |-> bucket, key |-> key, reply |-> reply]

\* the answer of a storage call that answers no size
Reply(kind) == [kind |-> kind, size |-> 0]

\* a tool call: the storage calls it made, in order, and how it ended (what it
\* returned, or the exception it raised)
ToolCall(tool, bucket, key, s3, result) ==
    [tool |-> tool, bucket |-> bucket, key |-> key, s3 |-> s3, result |-> result]

\* lines 80-141
read_text_file(bucket, key, head, get) ==
    LET headCall == S3Call("head_object", bucket, key, head)
        getCall  == S3Call("get_object", bucket, key, Reply(get))
        ended(s3, result) == ToolCall("read_text_file", bucket, key, s3, result)
    IN  IF read_file_extension(key) \notin TOOLS_SUPPORTED_EXTENSIONS
        THEN ended(<<>>, "ValueError: extension")
        ELSE IF head.kind = "ClientError"
        THEN ended(<<headCall>>, "ClientError")
        ELSE IF SizeExceeds(head.size)
        THEN ended(<<headCall>>, "ValueError: size")
        ELSE CASE get = "NoSuchKey"   -> ended(<<headCall, getCall>>, "FileNotFoundError")
               [] get = "ClientError" -> ended(<<headCall, getCall>>, "ClientError")
               [] get = "bad_utf8"    -> ended(<<headCall, getCall>>, "UnicodeDecodeError")
               [] OTHER               -> ended(<<headCall, getCall>>, "content")

\* lines 182-216: a ClientError of put_object is answered, not raised
save_summary(bucket, key, put) ==
    LET putCall == S3Call("put_object", bucket, key, Reply(put))
        ended(result) == ToolCall("save_summary", bucket, key, <<putCall>>, result)
    IN  CASE put = "ok"          -> ended("status: success")
          [] put = "ClientError" -> ended("status: error")
          [] OTHER               -> ended("Exception")

\* the objects that a tool call has written
Written(call) ==
    IF call.tool = "save_summary" /\ call.result = "status: success"
    THEN {[bucket |-> call.bucket, key |-> call.key]}
    ELSE {}

\* ------------------------------------------------------------------------
\* agent.py: process_document
\* ------------------------------------------------------------------------
KeyUpperMd  == <<"a", "/", "uploads", "/", "f", ".", "MD">>
KeyPdf      == <<"a", "/", "uploads", "/", "f", ".", "pdf">>
KeyNoExt    == <<"a", "/", "uploads", "/", "f">>
KeyTwoDots  == <<"a", "/", "uploads", "/", "f", ".", "g", ".", "txt">>
KeySubDir   == <<"a", "/", "uploads", "/", "d", "/", "f", ".", "md">>

\* process_document is called by the background run of invoke, with a bucket and a key
\* that passed its validation
DocKeys == {KeyUpload, KeyDeep, KeyUpperMd, KeyPdf, KeyNoExt, KeyTwoDots, KeySubDir}

\* s.rsplit(".", 1)[0]
RSplitDotHead(s) ==
    IF Positions(s, ".") = {} THEN s
    ELSE LET i == CHOOSE p \in Positions(s, ".") : \A q \in Positions(s, ".") : q <= p
         IN  SubSeq(s, 1, i - 1)

\* line 209
Filename(key) == Last(Split(key, "/"))

\* line 211
FilenameWithoutExt(key) == RSplitDotHead(Filename(key))

\* line 215; the timestamp is one symbol
SessionId(key) == FilenameWithoutExt(key) \o <<"_", "timestamp">>

SummariesDir == <<"/", "summaries", "/">>
SummarySuffix == <<".", "summary", ".", "txt">>

\* mutant of SummaryKey: the summary is written next to the document
SummaryKeyNextToDocument(key) == key \o SummarySuffix

\* mutant of SummaryKey: the extension is dropped, as in "report.summary.txt"
SummaryKeyWithoutExt(key) ==
    Split(key, "/")[1] \o SummariesDir \o FilenameWithoutExt(key) \o SummarySuffix

\* lines 221-222
SummaryKey(key) == Split(key, "/")[1] \o SummariesDir \o Filename(key) \o SummarySuffix

\* lines 238-253: what the prompt tells the agent
Prompt(bucket, key) ==
    [bucket |-> bucket, key |-> key, save_bucket |-> bucket, save_key |-> SummaryKey(key)]

\* the prompt is not built yet
NoPrompt == [bucket |-> None, key |-> None, save_bucket |-> None, save_key |-> None]

NoToolCall == ToolCall("none", EmptyStr, EmptyStr, <<>>, "none")

NoResult == [success |-> FALSE, summary_key |-> None, message |-> "none", session_id |-> None]

\* lines 263-268
SuccessResult(d) ==
    [success |-> TRUE, summary_key |-> d.summary_key,
     message |-> "summary generated", session_id |-> d.session_id]

\* lines 270-277
FailureResult ==
    [success |-> FALSE, summary_key |-> None,
     message |-> "error during processing", session_id |-> Absent]

\* process_document is entered: lines 206-222
DocEntered(bucket, key) ==
    [pc |-> "setup", bucket |-> bucket, key |-> key,
     session_id |-> SessionId(key), summary_key |-> SummaryKey(key),
     prompt |-> NoPrompt, tool_calls |-> 0, last_tool |-> NoToolCall, objects |-> {},
     result |-> NoResult]

\* lines 224-253: the session manager and the agent are created and the prompt is
\* built; an exception of either constructor ends the run in the except clause
DocSetup(raises) ==
    /\ doc.pc = "setup"
    /\ doc' = IF raises
              THEN [doc EXCEPT !.pc = "returned", !.result = FailureResult]
              ELSE [doc EXCEPT !.pc = "agent", !.prompt = Prompt(doc.bucket, doc.key)]
    /\ UNCHANGED <<runtime_vars, proxy, poll, pipe>>

AfterTool(call) ==
    [doc EXCEPT !.tool_calls = @ + 1, !.last_tool = call,
                !.objects = @ \cup Written(call)]

\* line 258, inside agent(prompt): the model calls read_text_file with the document
\* of the prompt; an exception of the tool is answered to the model as a tool error
AgentReadsFile(head, get) ==
    /\ doc.pc = "agent"
    /\ doc.tool_calls < MaxToolCalls
    /\ doc' = AfterTool(read_text_file(doc.prompt.bucket, doc.prompt.key, head, get))
    /\ UNCHANGED <<runtime_vars, proxy, poll, pipe>>

\* line 258, inside agent(prompt): the model calls save_summary with the destination
\* of the prompt
AgentSavesSummary(put) ==
    /\ doc.pc = "agent"
    /\ doc.tool_calls < MaxToolCalls
    /\ doc' = AfterTool(save_summary(doc.prompt.save_bucket, doc.prompt.save_key, put))
    /\ UNCHANGED <<runtime_vars, proxy, poll, pipe>>

\* lines 258-277: agent(prompt) returns and the run answers success, or it raises (the
\* model call fails) and the run answers failure
AgentEnds(raises) ==
    /\ doc.pc = "agent"
    /\ doc' = [doc EXCEPT !.pc = "returned",
                          !.result = IF raises THEN FailureResult ELSE SuccessResult(doc)]
    /\ UNCHANGED <<runtime_vars, proxy, poll, pipe>>

InitDoc ==
    /\ S3_BUCKET_NAME = EmptyStr
    /\ calls = [c \in CallIds |-> IdleCall]
    /\ active_tasks = {}
    /\ next_task_id = 1
    /\ threads = {}
    /\ complete_count = <<>>
    /\ proxy = ProxyOff
    /\ poll = PollOff
    /\ pipe = PipeOff
    /\ \E key \in DocKeys : doc = DocEntered(BucketB, key)

NextDoc ==
    \/ \E raises \in BOOLEAN : DocSetup(raises)
    \/ \E head \in HeadOutcomes, get \in GetOutcomes : AgentReadsFile(head, get)
    \/ \E put \in PutOutcomes : AgentSavesSummary(put)
    \/ \E raises \in BOOLEAN : AgentEnds(raises)

SpecDoc == InitDoc /\ [][NextDoc]_vars

\* ------------------------------------------------------------------------
\* Properties of process_document and its tools
\* ------------------------------------------------------------------------
DocReturned == doc.pc = "returned"

\* C11: when process_document returns success = True, a summary object has been saved
\* to storage at the returned summary_key.
C11_SuccessMeansSummarySaved ==
    (DocReturned /\ doc.result.success) =>
        [bucket |-> doc.bucket, key |-> doc.result.summary_key] \in doc.objects

\* the keys {user_id}/uploads/{filename}: n symbols of user id that hold no "/", then
\* "/uploads/", then a file name that holds no "/"
UserIdLengths(key) ==
    {n \in 0..(Len(key) - 3) :
        /\ SubSeq(key, n + 1, n + 3) = SlashUploadsSlash
        /\ Positions(SubSeq(key, 1, n), "/") = {}
        /\ Positions(SubSeq(key, n + 4, Len(key)), "/") = {}}

IsUserUploadsFilename(key) == UserIdLengths(key) # {}

\* {user_id}/summaries/{filename}.summary.txt of a key {user_id}/uploads/{filename}
ExpectedSummaryKey(key) ==
    LET n == CHOOSE k \in UserIdLengths(key) : TRUE
    IN  SubSeq(key, 1, n) \o <<"/", "summaries", "/">> \o SubSeq(key, n + 4, Len(key))
            \o <<".", "summary", ".", "txt">>

ReadCalled == doc.pc # "off" /\ doc.last_tool.tool = "read_text_file"

\* the symbols after the last "." of key, lowered, are txt or md
HasTextExtension(key) ==
    \E i \in 1..Len(key) :
        /\ key[i] = "."
        /\ \A j \in (i + 1)..Len(key) : key[j] # "."
        /\ Lower(SubSeq(key, i + 1, Len(key))) \in {<<"txt">>, <<"md">>}

\* C14: read_text_file checks in a fixed order and stops at the first failure: a key
\* whose extension is not .txt or .md raises ValueError before any storage call;
\* otherwise head_object is called first, a size above 10 MiB raises ValueError and
\* get_object is never called, and an object of exactly 10 MiB is fetched.
C14_ReadChecksInOrder ==
    ReadCalled =>
        LET call == doc.last_tool
            s3   == call.s3
        IN  /\ ~HasTextExtension(call.key) =>
                   s3 = <<>> /\ call.result = "ValueError: extension"
            /\ HasTextExtension(call.key) =>
                   /\ Len(s3) \in {1, 2}
                   /\ s3[1].op = "head_object"
                   /\ Len(s3) = 2 => s3[1].reply.kind = "ok" /\ s3[2].op = "get_object"
                   /\ s3[1].reply.kind = "ok" /\ s3[1].reply.size > 10 * 1024 * 1024 =>
                          Len(s3) = 1 /\ call.result = "ValueError: size"
                   /\ s3[1].reply.kind = "ok" /\ s3[1].reply.size <= 10 * 1024 * 1024 =>
                          Len(s3) = 2
                   /\ s3[1].reply.kind # "ok" => Len(s3) = 1 /\ call.result = "ClientError"

\* an object of exactly 10 MiB has been fetched and read
C14_ExactlyTheLimitIsFetched ==
    /\ ReadCalled
    /\ HasTextExtension(doc.last_tool.key)
    /\ Len(doc.last_tool.s3) = 2
    /\ doc.last_tool.s3[1].reply.size = 10 * 1024 * 1024
    /\ doc.last_tool.s3[2].op = "get_object"
    /\ doc.last_tool.result = "content"

\* ------------------------------------------------------------------------
\* The pipeline: an upload event, the proxy handler, invoke, the agent's tools, and
\* the event of the summary that was written
\* ------------------------------------------------------------------------
\* the pieces that the object keys of upload events are made of
KeyParts ==
    {<<"a">>, <<"/">>, <<".">>, <<"+">>, <<"/", "uploads", "/">>,
     <<"%2F", "uploads", "%2F">>, <<".", "txt">>, <<".", "MD">>}

\* the keys made of at most n parts
RECURSIVE KeysOfParts(_)
KeysOfParts(n) ==
    IF n = 0 THEN {EmptyStr}
    ELSE LET shorter == KeysOfParts(n - 1)
         IN  shorter \cup {k \o part : k \in shorter, part \in KeyParts}

\* the keys of the upload events, URL-encoded as S3 event notifications carry them
PipeKeys == KeysOfParts(MaxKeyParts)

QuoteSym(c) == IF c = " " THEN "+" ELSE c

\* the URL encoding of an object key in an S3 event notification, the inverse of
\* unquote_plus (proxy_handler.py lines 123-126)
Quote(s) == [i \in 1..Len(s) |-> QuoteSym(s[i])]

\* the record of the event for an object
EventRecord(bucket, enc) == [dict |-> TRUE, bucket |-> bucket, key |-> enc]

\* what invoke_agent returns when the runtime behind it is invoke of app.py: the
\* acknowledgement, or the error of the validation (app.py lines 150-171, 197-201)
RuntimeAnswer(bucket, key) ==
    IF InvokeError(bucket, key) = ""
    THEN [kind |-> "response", form |-> "text", status |-> "accepted",
          task_id |-> "task-1", message |-> MsgBackground]
    ELSE [kind |-> "response", form |-> "text", status |-> "error",
          task_id |-> "None", message |-> InvokeError(bucket, key)]

\* handler runs on an event of one record: the iteration of its loop for that record
\* (proxy_handler.py lines 118-178), with the runtime answering as invoke does
HandlerOn(record) ==
    LoopBody(ProxyEntered([has_records |-> TRUE, Records |-> <<record>>]), record,
             RuntimeAnswer(record.bucket, unquote_plus(record.key)))

NoHandler == ProxyEntered([has_records |-> FALSE, Records |-> <<>>])

\* an object was uploaded and its event is on its way to the proxy
PipeEntered(enc) ==
    [pc |-> "event", enc |-> enc, upload |-> NoHandler, read |-> NoToolCall,
     save |-> NoToolCall, summary |-> NoHandler]

\* the record was forwarded: invoke_agentcore_runtime was called for it
Forwarded(h) == h.runtime_calls # <<>>

\* proxy_handler.py lines 118-169 and app.py lines 148-201: the handler runs on the
\* upload's event and, if it forwards the key, the runtime validates it and answers
PipeHandleUpload ==
    /\ pipe.pc = "event"
    /\ LET h == HandlerOn(EventRecord(BucketB, pipe.enc))
       IN  pipe' = [pipe EXCEPT !.upload = h,
                       !.pc = IF ~Forwarded(h) THEN "dropped"
                              ELSE IF h.accepted # <<>> THEN "running" ELSE "rejected"]
    /\ UNCHANGED <<runtime_vars, proxy, poll, doc>>

\* agent.py line 258: the agent reads the document of the prompt
PipeAgentReads(head, get) ==
    /\ pipe.pc = "running"
    /\ pipe' = [pipe EXCEPT !.pc = "read",
                   !.read = read_text_file(pipe.upload.bucket, pipe.upload.key, head, get)]
    /\ UNCHANGED <<runtime_vars, proxy, poll, doc>>

\* agent.py line 258: the agent saves the summary at the destination of the prompt
PipeAgentSaves(put) ==
    /\ pipe.pc = "read"
    /\ LET call == save_summary(pipe.upload.bucket, SummaryKey(pipe.upload.key), put)
       IN  pipe' = [pipe EXCEPT !.save = call,
                       !.pc = IF Written(call) # {} THEN "saved" ELSE "unsaved"]
    /\ UNCHANGED <<runtime_vars, proxy, poll, doc>>

\* the object of the summary was created: its event reaches the handler
PipeHandleSummary ==
    /\ pipe.pc = "saved"
    /\ pipe' = [pipe EXCEPT !.pc = "done",
                   !.summary = HandlerOn(EventRecord(pipe.save.bucket, Quote(pipe.save.key)))]
    /\ UNCHANGED <<runtime_vars, proxy, poll, doc>>

InitPipe ==
    /\ S3_BUCKET_NAME = EmptyStr
    /\ calls = [c \in CallIds |-> IdleCall]
    /\ active_tasks = {}
    /\ next_task_id = 1
    /\ threads = {}
    /\ complete_count = <<>>
    /\ proxy = ProxyOff
    /\ poll = PollOff
    /\ doc = DocOff
    /\ \E enc \in PipeKeys : pipe = PipeEntered(enc)

NextPipe ==
    \/ PipeHandleUpload
    \/ \E head \in HeadOutcomes, get \in GetOutcomes : PipeAgentReads(head, get)
    \/ \E put \in PutOutcomes : PipeAgentSaves(put)
    \/ PipeHandleSummary

SpecPipe == InitPipe /\ [][NextPipe]_vars

\* ------------------------------------------------------------------------
\* Properties of the pipeline
\* ------------------------------------------------------------------------
PipeHandled == pipe.pc \notin {"off", "event"}

\* C16: writing a summary never re-triggers the pipeline: for every key the proxy
\* handler forwards, the summary key derived from it does not contain "/uploads/", and
\* the handler classifies the upload event of the summary object as skipped and does
\* not invoke the runtime for it.
C16_SummaryIsNotForwarded ==
    /\ (PipeHandled /\ Forwarded(pipe.upload)) =>
           ~Contains(SummaryKey(pipe.upload.key), SlashUploadsSlash)
    /\ pipe.pc = "done" =>
           /\ ~Forwarded(pipe.summary)
           /\ pipe.summary.accepted = <<>>
           /\ pipe.summary.errors = <<>>
           /\ Len(pipe.summary.skipped) = 1
           /\ pipe.summary.skipped[1].key = pipe.save.key
           /\ pipe.save.key = SummaryKey(pipe.upload.key)

\* the summary of an upload with a space in its name was written and its event was
\* skipped for not being under uploads
C16_SummaryEventSkipped ==
    /\ pipe.pc = "done"
    /\ Forwarded(pipe.upload)
    /\ Contains(pipe.upload.key, Str(" "))
    /\ pipe.save.result = "status: success"
    /\ pipe.summary.skipped[1].reason = SkipNotUploads
    /\ pipe.summary.runtime_calls = <<>>

\* C17: the proxy's filter is at least as strict as the checks downstream: every key
\* the handler forwards has at least 3 "/"-separated segments and invoke answers
\* "accepted" for it, never "error"; read_text_file's extension check passes for it;
\* and the two extension computations give the same result for every key.
C17_ForwardedKeyPassesDownstream ==
    pipe.pc # "off" =>
        LET key == unquote_plus(pipe.enc)
        IN  /\ get_file_extension(key) = read_file_extension(key)
            /\ (PipeHandled /\ Forwarded(pipe.upload)) =>
                   /\ pipe.upload.key = key
                   /\ Segments(key) >= 3
                   /\ pipe.pc # "rejected"
                   /\ Len(pipe.upload.accepted) = 1
                   /\ pipe.upload.errors = <<>>
            /\ pipe.read # NoToolCall => pipe.read.result # "ValueError: extension"

\* a key of exactly 3 segments with an upper-case extension was forwarded, accepted
\* by invoke and read by read_text_file
C17_ForwardedAcceptedAndRead ==
    /\ pipe.pc = "read"
    /\ Segments(pipe.upload.key) = 3
    /\ AfterLastDot(pipe.upload.key) = <<"MD">>
    /\ pipe.upload.accepted # <<>>
    /\ pipe.read.result = "content"

====
